---- MODULE Spec2Model ----
(***************************************************************************)
(* Embedding-visualization pipeline of leaninformaltoformal:               *)
(*   backend/visualize_embeddings.py  (fold_title, cluster_center_idxs,    *)
(*                                     visualize_embeddings,               *)
(*                                     generate_visualization_plot)        *)
(*   backend/app.py                   (Flask route /api/visualize)         *)
(*   api/visualize.py                 (serverless handler)                 *)
(* together with the part of matplotlib.pyplot's figure registry the       *)
(* pipeline goes through (plt.subplots, plt.tight_layout, plt.savefig,     *)
(* plt.close).                                                             *)
(***************************************************************************)
EXTENDS Integers, Sequences, FiniteSets, TLC

VARIABLES
    \* ---- fold_title, applied to a title ----
    ft_title,       \* the title: a sequence of one-character strings
    ft_runs,        \* how many runs of characters the title was built from
    ft_result,      \* what fold_title returned
    ft_called,      \* whether fold_title has been applied
    \* ---- cluster_center_idxs, applied to a matrix and a labelling ----
    cc_embeddings,  \* [0..N-1 -> vector]
    cc_labels,      \* [0..N-1 -> label]
    cc_result,      \* the list of indices returned
    cc_called,      \* whether cluster_center_idxs has been applied
    \* ---- the visualize operation, per call ----
    pc,                     \* where the call stands
    route,                  \* "direct" | "flask" | "vercel"
    method,                 \* the request's HTTP method
    malformed,              \* the request body cannot be read as a JSON object
    informal_statement,     \* the statement ("" when missing)
    lean_codes,             \* the sequence of snippets
    cluster2_center_idxs,   \* local of visualize_embeddings
    cluster4_center_idxs,   \* local of visualize_embeddings
    log,                    \* the stages the call has invoked, in order
    used,                   \* the figure each pyplot call of the call acted on
    ret,                 \* how generate_visualization_plot ended
    resp,                   \* the HTTP response
    \* ---- process-wide state ----
    DEPENDENCIES_AVAILABLE, \* api/visualize.py's import flag
    figs,                   \* pyplot's registry of open figures; the last is current
    content                 \* what has been drawn on each figure

foldVars == <<ft_title, ft_runs, ft_result, ft_called>>
clusterVars == <<cc_embeddings, cc_labels, cc_result, cc_called>>
inputVars == <<route, method, malformed, informal_statement, lean_codes,
               DEPENDENCIES_AVAILABLE>>
pipeVars == <<pc, route, method, malformed, informal_statement, lean_codes,
              cluster2_center_idxs, cluster4_center_idxs, log, used, ret,
              resp, DEPENDENCIES_AVAILABLE, figs, content>>
vars == <<ft_title, ft_runs, ft_result, ft_called,
          cc_embeddings, cc_labels, cc_result, cc_called,
          pc, route, method, malformed, informal_statement, lean_codes,
          cluster2_center_idxs, cluster4_center_idxs, log, used, ret,
          resp, DEPENDENCIES_AVAILABLE, figs, content>>

(***************************************************************************)
(* Bounds of the model.                                                    *)
(***************************************************************************)
MaxRuns == 3        \* a title is at most this many runs of one character
MaxN == 3           \* rows of an embedding matrix given to cluster_center_idxs
MaxK == 3           \* label values given to cluster_center_idxs are 0..MaxK-1
MaxCodes == 4       \* snippets in one request

(***************************************************************************)
(* Small helpers.                                                          *)
(***************************************************************************)
Min(a, b) == IF a < b THEN a ELSE b

Take(s, n) == SubSeq(s, 1, Min(n, Len(s)))          \* s[:n]

Drop(s, n) == SubSeq(s, Min(n, Len(s)) + 1, Len(s)) \* s[n:]

Rep(c, n) == [i \in 1..n |-> c]

RECURSIVE SortedSeq(_)
SortedSeq(S) ==
    IF S = {} THEN <<>>
    ELSE LET m == CHOOSE x \in S : \A y \in S : x <= y
         IN  <<m>> \o SortedSeq(S \ {m})

RECURSIVE SeqSum(_)
SeqSum(s) == IF Len(s) = 0 THEN 0 ELSE Head(s) + SeqSum(Tail(s))

(***************************************************************************)
(* fold_title (visualize_embeddings.py:49-57).  Strings are sequences of   *)
(* one-character strings.                                                  *)
(***************************************************************************)
width == 30

Whitespace == {" ", "\n"}

Alphabet == {"a", "b", " ", "\n"}

RunLens == {1, width - 1, width}

\* str.strip(): whitespace removed from BOTH ends of the string
RECURSIVE lstrip(_)
lstrip(s) == IF Len(s) > 0 /\ Head(s) \in Whitespace THEN lstrip(Tail(s)) ELSE s

RECURSIVE rstrip(_)
rstrip(s) ==
    IF Len(s) > 0 /\ s[Len(s)] \in Whitespace
    THEN rstrip(SubSeq(s, 1, Len(s) - 1)) ELSE s

strip(s) == rstrip(lstrip(s))

\* the while loop of lines 54-56
RECURSIVE FoldLoopSkip(_, _)
FoldLoopSkip(result, rest) ==
    IF Len(rest) > 0
    THEN FoldLoopSkip(result \o Take(rest, width) \o <<"\n">>, Drop(rest, width + 1))
    ELSE result

RECURSIVE FoldLoop(_, _)
FoldLoop(result, rest) ==
    IF Len(rest) > 0
    THEN FoldLoop(result \o Take(rest, width) \o <<"\n">>, Drop(rest, width))
    ELSE result

fold_title(title) == strip(FoldLoop(<<>>, title))

(***************************************************************************)
(* cluster_center_idxs (visualize_embeddings.py:22-46).  The matrix and    *)
(* the labels are functions on 0..N-1, as in the source; the returned list *)
(* is a sequence of those indices.                                         *)
(***************************************************************************)
Coord == {0, 1}

Vectors == Coord \X Coord

\* line 32: n_clusters = len(set(labels))
n_clusters(labels) == Cardinality({labels[j] : j \in DOMAIN labels})

\* line 35: np.where(labels == i)[0], ascending
cluster_indices(labels, i) == SortedSeq({j \in DOMAIN labels : labels[j] = i})

\* lines 38-42: squared distance of each member to the mean of the members.
\* With m members the mean has denominator m; every distance is kept
\* multiplied by m*m, which leaves their order unchanged.
distances(embeddings, idxs) ==
    LET m == Len(idxs)
        dims == DOMAIN embeddings[idxs[1]]
        colsum(d) == SeqSum([p \in 1..m |-> embeddings[idxs[p]][d]])
        sq(x) == x * x
    IN  [p \in 1..m |->
            SeqSum([d \in dims |-> sq(m * embeddings[idxs[p]][d] - colsum(d))])]

\* line 43: np.argmin returns the first position of the minimum
RECURSIVE ArgminScanLast(_, _, _)
ArgminScanLast(d, p, best) ==
    IF p > Len(d) THEN best
    ELSE ArgminScanLast(d, p + 1, IF d[p] <= d[best] THEN p ELSE best)

RECURSIVE ArgminScan(_, _, _)
ArgminScan(d, p, best) ==
    IF p > Len(d) THEN best
    ELSE ArgminScan(d, p + 1, IF d[p] < d[best] THEN p ELSE best)

argmin(d) == ArgminScan(d, 2, 1)

\* lines 34-45: for i in range(n_clusters)
RECURSIVE CenterLoop(_, _, _, _)
CenterLoop(embeddings, labels, i, n) ==
    IF i >= n THEN <<>>
    ELSE LET ci == cluster_indices(labels, i)
         IN  (IF Len(ci) = 0 THEN <<>>
              ELSE <<ci[argmin(distances(embeddings, ci))]>>)
             \o CenterLoop(embeddings, labels, i + 1, n)

cluster_center_idxs(embeddings, labels) ==
    CenterLoop(embeddings, labels, 0, n_clusters(labels))

\* no title is being folded / no matrix is being analysed on its own
FoldIdle ==
    /\ ft_title = <<>>
    /\ ft_runs = 0
    /\ ft_result = <<>>
    /\ ft_called = FALSE

ClusterIdle ==
    /\ cc_embeddings = <<>>
    /\ cc_labels = <<>>
    /\ cc_result = <<>>
    /\ cc_called = FALSE

(***************************************************************************)
(* The visualize operation.  Two workers, A and B, each serve one call.    *)
(***************************************************************************)
Calls == {"A", "B"}

Routes == {"direct", "flask", "vercel"}

Methods == {"POST", "OPTIONS", "GET"}

Snippets == {"p", "q"}

Statements == {"", "The sum of two even numbers is even"}

CodeLists == UNION {[1..n -> Snippets] : n \in 0..MaxCodes}

PERPLEXITY == 30

\* ---- values ----
NoFig == <<>>

\* the figure plt.subplots() makes for call t / the one gcf() makes for it
\* when no figure is open
SubplotsFig(t) == <<t, "subplots">>

GcfFig(t) == <<t, "gcf">>

FigIds == {SubplotsFig(t) : t \in Calls} \cup {GcfFig(t) : t \in Calls}

Ev(op, arg, texts) == [op |-> op, arg |-> arg, texts |-> texts]

NoResult == [kind |-> "none", plot |-> <<>>, err |-> ""]

Returned(plot) == [kind |-> "returned", plot |-> plot, err |-> ""]

Raised(err) == [kind |-> "raised", plot |-> <<>>, err |-> err]

NoResp == [status |-> 0, keys |-> {}, success |-> FALSE, plot_image |-> <<>>,
           error |-> ""]

\* a response body {'error': ..., 'success': False}
ErrorBody(status, error) ==
    [status |-> status, keys |-> {"error", "success"}, success |-> FALSE,
     plot_image |-> <<>>, error |-> error]

\* a response body {'error': ...}
ErrorOnlyBody(status, error) ==
    [status |-> status, keys |-> {"error"}, success |-> FALSE,
     plot_image |-> <<>>, error |-> error]

\* a response body {'plot_image': ..., 'success': True}
SuccessBody(plot) ==
    [status |-> 200, keys |-> {"plot_image", "success"}, success |-> TRUE,
     plot_image |-> plot, error |-> ""]

\* the PNG of figure f, base64-encoded: which figure it shows and what was
\* drawn on it.  The empty string is <<>>.
Png(f, drawn) == <<f[1], f[2], drawn>>

\* ---- api/visualize.py: handler, up to the call of the pipeline ----
\* NoResp stands for "goes on to generate_visualization_plot"
handler_entry(m, deps, bad, stmt, codes) ==
    IF m = "OPTIONS" THEN
        [status |-> 200, keys |-> {}, success |-> FALSE, plot_image |-> <<>>,
         error |-> ""]
    ELSE IF m # "POST" THEN ErrorOnlyBody(405, "Method not allowed")
    ELSE IF ~deps THEN
        [status |-> 500, keys |-> {"error", "details", "success"},
         success |-> FALSE, plot_image |-> <<>>,
         error |-> "Dependencies not available"]
    ELSE IF bad THEN ErrorBody(500, "request body")
    ELSE IF stmt = "" \/ Len(codes) = 0 THEN
        ErrorBody(400, "Missing informal_statement or lean_codes")
    ELSE NoResp

\* ---- backend/app.py: visualize_embeddings, up to the call of the pipeline
flask_entry(bad, stmt, codes) ==
    IF bad THEN ErrorBody(500, "request body")
    ELSE IF stmt = "" \/ Len(codes) = 0 THEN
        ErrorOnlyBody(400, "Missing informal_statement or lean_codes")
    ELSE NoResp

\* ---- both: what the caller gets once the pipeline has ended ----
exit_response(r, res) ==
    IF r = "direct" THEN NoResp
    ELSE IF res.kind = "returned" THEN SuccessBody(res.plot)
    ELSE ErrorBody(500, res.err)

\* ---- visualize_embeddings.py ----
\* line 176: if not lean_codes
NeverShortCircuits(codes) == FALSE

NothingToVisualize(codes) == Len(codes) = 0

\* lines 65-69, 60-62: the embedding of each snippet, a function of its text
Embed(code) == IF code = "p" THEN <<0, 0>> ELSE <<1, 1>>

generate_embeddings(codes) == [i \in 0..(Len(codes) - 1) |-> Embed(codes[i + 1])]

\* line 94: if len(embeddings) < 4
TooFewPointsBelow3(n) == n < 3

TooFewPoints(n) == n < 4

\* lines 105-106, 110-111: KMeans(n_clusters=k).fit_predict(embeddings).  The
\* library assigns every row the label of its nearest centre: any labelling
\* with values in 0..k-1 that gives equal rows equal labels.
KMeansLabels(embeddings, k) ==
    {l \in [DOMAIN embeddings -> 0..(k - 1)] :
        \A i, j \in DOMAIN embeddings :
            embeddings[i] = embeddings[j] => l[i] = l[j]}

\* ---- matplotlib.pyplot ----
\* gcf(): the current figure; with none open, a new blank one is opened
GcfOf(t) == IF Len(figs) > 0 THEN figs[Len(figs)] ELSE GcfFig(t)

FigsAfterGcf(t) == IF Len(figs) > 0 THEN figs ELSE <<GcfFig(t)>>

ContentAfterGcf(t) ==
    IF Len(figs) > 0 THEN content ELSE [content EXCEPT ![GcfFig(t)] = "blank"]

\* ---- the steps of one call ----
Raise(t, stage) ==
    /\ pc' = [pc EXCEPT ![t] = "raised"]
    /\ ret' = [ret EXCEPT ![t] = Raised(stage)]

\* handler lines 33-85 / app.py lines 20-28: the request is received
HandleRequest(t) ==
    /\ pc[t] = "request"
    /\ LET early == IF route[t] = "vercel"
                    THEN handler_entry(method[t], DEPENDENCIES_AVAILABLE,
                                       malformed[t], informal_statement[t],
                                       lean_codes[t])
                    ELSE IF route[t] = "flask"
                    THEN flask_entry(malformed[t], informal_statement[t],
                                     lean_codes[t])
                    ELSE NoResp
       IN  IF early = NoResp
           THEN /\ pc' = [pc EXCEPT ![t] = "generate"]
                /\ resp' = resp
           ELSE /\ pc' = [pc EXCEPT ![t] = "done"]
                /\ resp' = [resp EXCEPT ![t] = early]
    /\ UNCHANGED <<cluster2_center_idxs, cluster4_center_idxs, log, used,
                   ret, figs, content>>
    /\ UNCHANGED inputVars
    /\ UNCHANGED <<foldVars, clusterVars>>

\* generate_visualization_plot lines 176-181
Generate(t) ==
    /\ pc[t] = "generate"
    /\ IF NothingToVisualize(lean_codes[t])
       THEN /\ ret' = [ret EXCEPT ![t] = Returned(<<>>)]
            /\ pc' = [pc EXCEPT ![t] = "returned"]
            /\ log' = log
       ELSE \E ok \in BOOLEAN :
               IF ok
               THEN /\ log' = [log EXCEPT ![t] =
                                 Append(@, Ev("generate_embeddings",
                                              Len(lean_codes[t]), <<>>))]
                    /\ pc' = [pc EXCEPT ![t] = "subplots"]
                    /\ ret' = ret
               ELSE /\ Raise(t, "generate_embeddings")
                    /\ log' = log
    /\ UNCHANGED <<cluster2_center_idxs, cluster4_center_idxs, used, resp,
                   figs, content>>
    /\ UNCHANGED inputVars
    /\ UNCHANGED <<foldVars, clusterVars>>

\* line 184: fig, axs = plt.subplots(1, 2, ...)
Subplots(t) ==
    /\ pc[t] = "subplots"
    /\ \E ok \in BOOLEAN :
          IF ok
          THEN /\ figs' = Append(figs, SubplotsFig(t))
               /\ content' = [content EXCEPT ![SubplotsFig(t)] = "blank"]
               /\ pc' = [pc EXCEPT ![t] = "visualize"]
               /\ ret' = ret
          ELSE /\ Raise(t, "subplots")
               /\ UNCHANGED <<figs, content>>
    /\ UNCHANGED <<cluster2_center_idxs, cluster4_center_idxs, log, used, resp>>
    /\ UNCHANGED inputVars
    /\ UNCHANGED <<foldVars, clusterVars>>

\* visualize_embeddings lines 94-102: too few points, two placeholder panels
Placeholder(t) ==
    /\ pc[t] = "visualize"
    /\ TooFewPoints(Len(lean_codes[t]))
    /\ content' = [content EXCEPT ![SubplotsFig(t)] = "placeholder"]
    /\ pc' = [pc EXCEPT ![t] = "tight_layout"]
    /\ UNCHANGED <<cluster2_center_idxs, cluster4_center_idxs, log, used,
                   ret, resp, figs>>
    /\ UNCHANGED inputVars
    /\ UNCHANGED <<foldVars, clusterVars>>

\* lines 105-107: 2-cluster analysis
KMeans2(t) ==
    /\ pc[t] = "visualize"
    /\ ~TooFewPoints(Len(lean_codes[t]))
    /\ \E ok \in BOOLEAN :
          IF ok
          THEN \E labels_2cluster \in
                    KMeansLabels(generate_embeddings(lean_codes[t]),
                                 Min(2, Len(lean_codes[t]))) :
                  LET idxs == cluster_center_idxs(
                                generate_embeddings(lean_codes[t]),
                                labels_2cluster)
                  IN  /\ cluster2_center_idxs' =
                            [cluster2_center_idxs EXCEPT ![t] = idxs]
                      /\ log' = [log EXCEPT ![t] =
                            Append(@, Ev("KMeans", Min(2, Len(lean_codes[t])),
                                         idxs))]
                      /\ pc' = [pc EXCEPT ![t] = "kmeans4"]
                      /\ ret' = ret
          ELSE /\ Raise(t, "KMeans")
               /\ UNCHANGED <<cluster2_center_idxs, log>>
    /\ UNCHANGED <<cluster4_center_idxs, used, resp, figs, content>>
    /\ UNCHANGED inputVars
    /\ UNCHANGED <<foldVars, clusterVars>>

\* lines 110-112: 4-cluster analysis
KMeans4(t) ==
    /\ pc[t] = "kmeans4"
    /\ \E ok \in BOOLEAN :
          IF ok
          THEN \E labels_4cluster \in
                    KMeansLabels(generate_embeddings(lean_codes[t]),
                                 Min(4, Len(lean_codes[t]))) :
                  LET idxs == cluster_center_idxs(
                                generate_embeddings(lean_codes[t]),
                                labels_4cluster)
                  IN  /\ cluster4_center_idxs' =
                            [cluster4_center_idxs EXCEPT ![t] = idxs]
                      /\ log' = [log EXCEPT ![t] =
                            Append(@, Ev("KMeans", Min(4, Len(lean_codes[t])),
                                         idxs))]
                      /\ pc' = [pc EXCEPT ![t] = "tsne"]
                      /\ ret' = ret
          ELSE /\ Raise(t, "KMeans")
               /\ UNCHANGED <<cluster4_center_idxs, log>>
    /\ UNCHANGED <<cluster2_center_idxs, used, resp, figs, content>>
    /\ UNCHANGED inputVars
    /\ UNCHANGED <<foldVars, clusterVars>>

\* lines 115-117: t-SNE
Tsne(t) ==
    /\ pc[t] = "tsne"
    /\ \E ok \in BOOLEAN :
          IF ok
          THEN /\ log' = [log EXCEPT ![t] =
                     Append(@, Ev("TSNE",
                                  Min(PERPLEXITY, Len(lean_codes[t]) - 1), <<>>))]
               /\ pc' = [pc EXCEPT ![t] = "plot2"]
               /\ ret' = ret
          ELSE /\ Raise(t, "TSNE")
               /\ log' = log
    /\ UNCHANGED <<cluster2_center_idxs, cluster4_center_idxs, used, resp,
                   figs, content>>
    /\ UNCHANGED inputVars
    /\ UNCHANGED <<foldVars, clusterVars>>

\* lines 120-144: the left panel; texts2 holds one label per index of
\* cluster2_center_idxs, and adjust_text runs only if texts2 is not empty
Plot2(t) ==
    /\ pc[t] = "plot2"
    /\ LET texts2 == cluster2_center_idxs[t]
       IN  \E ok \in BOOLEAN :
              IF ok
              THEN /\ log' = [log EXCEPT ![t] =
                         IF Len(texts2) > 0
                         THEN Append(@, Ev("adjust_text", 0, texts2))
                         ELSE @]
                   /\ content' = [content EXCEPT ![SubplotsFig(t)] = "left"]
                   /\ pc' = [pc EXCEPT ![t] = "plot4"]
                   /\ ret' = ret
              ELSE /\ Len(texts2) > 0
                   /\ Raise(t, "adjust_text")
                   /\ content' = [content EXCEPT ![SubplotsFig(t)] = "left"]
                   /\ log' = log
    /\ UNCHANGED <<cluster2_center_idxs, cluster4_center_idxs, used, resp, figs>>
    /\ UNCHANGED inputVars
    /\ UNCHANGED <<foldVars, clusterVars>>

\* lines 147-171: the right panel, then visualize_embeddings returns
Plot4(t) ==
    /\ pc[t] = "plot4"
    /\ LET texts4 == cluster4_center_idxs[t]
       IN  \E ok \in BOOLEAN :
              IF ok
              THEN /\ log' = [log EXCEPT ![t] =
                         IF Len(texts4) > 0
                         THEN Append(@, Ev("adjust_text", 1, texts4))
                         ELSE @]
                   /\ content' = [content EXCEPT ![SubplotsFig(t)] = "both"]
                   /\ pc' = [pc EXCEPT ![t] = "tight_layout"]
                   /\ ret' = ret
              ELSE /\ Len(texts4) > 0
                   /\ Raise(t, "adjust_text")
                   /\ content' = [content EXCEPT ![SubplotsFig(t)] = "both"]
                   /\ log' = log
    /\ cluster2_center_idxs' = [cluster2_center_idxs EXCEPT ![t] = <<>>]
    /\ cluster4_center_idxs' = [cluster4_center_idxs EXCEPT ![t] = <<>>]
    /\ UNCHANGED <<used, resp, figs>>
    /\ UNCHANGED inputVars
    /\ UNCHANGED <<foldVars, clusterVars>>

\* line 193: plt.tight_layout() acts on pyplot's current figure
TightLayout(t) ==
    /\ pc[t] = "tight_layout"
    /\ used' = [used EXCEPT ![t].tight = GcfOf(t)]
    /\ figs' = FigsAfterGcf(t)
    /\ content' = ContentAfterGcf(t)
    /\ \E ok \in BOOLEAN :
          IF ok
          THEN /\ pc' = [pc EXCEPT ![t] = "savefig"]
               /\ ret' = ret
          ELSE Raise(t, "tight_layout")
    /\ UNCHANGED <<cluster2_center_idxs, cluster4_center_idxs, log, resp>>
    /\ UNCHANGED inputVars
    /\ UNCHANGED <<foldVars, clusterVars>>

\* lines 196-200: plt.savefig(buffer, ...) writes pyplot's current figure
Savefig(t) ==
    /\ pc[t] = "savefig"
    /\ figs' = FigsAfterGcf(t)
    /\ content' = ContentAfterGcf(t)
    /\ \E ok \in BOOLEAN :
          IF ok
          THEN /\ used' = [used EXCEPT ![t].save = GcfOf(t),
                                       ![t].data = ContentAfterGcf(t)[GcfOf(t)]]
               /\ log' = [log EXCEPT ![t] = Append(@, Ev("savefig", 0, <<>>))]
               /\ pc' = [pc EXCEPT ![t] = "close"]
               /\ ret' = ret
          ELSE /\ Raise(t, "savefig")
               /\ UNCHANGED <<used, log>>
    /\ UNCHANGED <<cluster2_center_idxs, cluster4_center_idxs, resp>>
    /\ UNCHANGED inputVars
    /\ UNCHANGED <<foldVars, clusterVars>>

\* line 201: plt.close() closes pyplot's current figure, if there is one
Close(t) ==
    /\ pc[t] = "close"
    /\ IF Len(figs) > 0
       THEN /\ used' = [used EXCEPT ![t].close = figs[Len(figs)]]
            /\ figs' = SubSeq(figs, 1, Len(figs) - 1)
       ELSE UNCHANGED <<used, figs>>
    /\ pc' = [pc EXCEPT ![t] = "encode"]
    /\ UNCHANGED <<cluster2_center_idxs, cluster4_center_idxs, log, ret,
                   resp, content>>
    /\ UNCHANGED inputVars
    /\ UNCHANGED <<foldVars, clusterVars>>

\* lines 204-205: base64 of the bytes savefig wrote, returned
Encode(t) ==
    /\ pc[t] = "encode"
    /\ log' = [log EXCEPT ![t] = Append(@, Ev("b64encode", 0, <<>>))]
    /\ ret' = [ret EXCEPT ![t] =
                     Returned(Png(used[t].save, used[t].data))]
    /\ pc' = [pc EXCEPT ![t] = "returned"]
    /\ UNCHANGED <<cluster2_center_idxs, cluster4_center_idxs, used, resp,
                   figs, content>>
    /\ UNCHANGED inputVars
    /\ UNCHANGED <<foldVars, clusterVars>>

\* handler lines 87-107 / app.py lines 33-42: the response of the call; a
\* direct caller has the value or the exception itself
Respond(t) ==
    /\ pc[t] \in {"returned", "raised"}
    /\ resp' = [resp EXCEPT ![t] = exit_response(route[t], ret[t])]
    /\ pc' = [pc EXCEPT ![t] = "done"]
    /\ UNCHANGED <<cluster2_center_idxs, cluster4_center_idxs, log, used,
                   ret, figs, content>>
    /\ UNCHANGED inputVars
    /\ UNCHANGED <<foldVars, clusterVars>>

Next ==
    \E t \in Calls :
        \/ HandleRequest(t)
        \/ Generate(t)
        \/ Subplots(t)
        \/ Placeholder(t)
        \/ KMeans2(t)
        \/ KMeans4(t)
        \/ Tsne(t)
        \/ Plot2(t)
        \/ Plot4(t)
        \/ TightLayout(t)
        \/ Savefig(t)
        \/ Close(t)
        \/ Encode(t)
        \/ Respond(t)

\* ---- initial states ----
NoUse == [tight |-> NoFig, save |-> NoFig, close |-> NoFig, data |-> ""]

PipeStart ==
    /\ cluster2_center_idxs = [t \in Calls |-> <<>>]
    /\ cluster4_center_idxs = [t \in Calls |-> <<>>]
    /\ log = [t \in Calls |-> <<>>]
    /\ used = [t \in Calls |-> NoUse]
    /\ ret = [t \in Calls |-> NoResult]
    /\ resp = [t \in Calls |-> NoResp]
    /\ figs = <<>>
    /\ content = [f \in FigIds |-> "none"]

\* the requests a worker can be given: the method matters to the serverless
\* handler only (Flask routes POST alone); a request that is not read has no
\* fields
Requests ==
    {r \in [route : Routes, method : Methods, malformed : BOOLEAN,
            informal_statement : Statements, lean_codes : CodeLists] :
        /\ r.route # "vercel" => r.method = "POST"
        /\ r.route = "direct" => ~r.malformed
        /\ (r.malformed \/ r.method # "POST") =>
              r.informal_statement = "" /\ r.lean_codes = <<>>}

NoRequest ==
    [route |-> "direct", method |-> "POST", malformed |-> FALSE,
     informal_statement |-> "", lean_codes |-> <<>>]

\* worker t holds request req[t]; a worker with no request stays idle
Given(req, active) ==
    /\ pc = [t \in Calls |-> IF t \in active THEN "request" ELSE "idle"]
    /\ route = [t \in Calls |-> req[t].route]
    /\ method = [t \in Calls |-> req[t].method]
    /\ malformed = [t \in Calls |-> req[t].malformed]
    /\ informal_statement = [t \in Calls |-> req[t].informal_statement]
    /\ lean_codes = [t \in Calls |-> req[t].lean_codes]

PipeIdle ==
    /\ PipeStart
    /\ pc = [t \in Calls |-> "idle"]
    /\ route = [t \in Calls |-> "direct"]
    /\ method = [t \in Calls |-> "POST"]
    /\ malformed = [t \in Calls |-> FALSE]
    /\ informal_statement = [t \in Calls |-> ""]
    /\ lean_codes = [t \in Calls |-> <<>>]
    /\ DEPENDENCIES_AVAILABLE = TRUE

\* one call at a time: worker A is given any request, worker B none.  The
\* import flag can be off only where the serverless module is the one loaded.
Init ==
    /\ FoldIdle
    /\ ClusterIdle
    /\ PipeStart
    /\ \E r \in Requests :
          /\ Given([t \in Calls |-> IF t = "A" THEN r ELSE NoRequest], {"A"})
          /\ DEPENDENCIES_AVAILABLE \in
                (IF r.route = "vercel" THEN BOOLEAN ELSE {TRUE})

Spec == Init /\ [][Next]_vars

\* two calls at once, as under Flask's threaded server: both workers are
\* given a well-formed request with a statement
ConcCodeLists == {<<"p">>, <<"p", "q", "q", "p">>}

ConcRequests ==
    {r \in Requests :
        /\ r.route = "flask"
        /\ ~r.malformed
        /\ r.informal_statement # ""
        /\ r.lean_codes \in ConcCodeLists}

InitConc ==
    /\ FoldIdle
    /\ ClusterIdle
    /\ PipeStart
    /\ DEPENDENCIES_AVAILABLE = TRUE
    /\ \E ra \in ConcRequests, rb \in ConcRequests :
          Given([t \in Calls |-> IF t = "A" THEN ra ELSE rb], Calls)

SpecConc == InitConc /\ [][Next]_vars

(***************************************************************************)
(* Specification of fold_title on bounded titles.                          *)
(***************************************************************************)
InitFold == FoldIdle /\ ClusterIdle /\ PipeIdle

\* the caller builds a title, one run of a character at a time
ExtendTitle ==
    /\ ~ft_called
    /\ ft_runs < MaxRuns
    /\ \E c \in Alphabet, n \in RunLens :
          ft_title' = ft_title \o Rep(c, n)
    /\ ft_runs' = ft_runs + 1
    /\ UNCHANGED <<ft_result, ft_called>>
    /\ UNCHANGED clusterVars
    /\ UNCHANGED pipeVars

CallFoldTitle ==
    /\ ~ft_called
    /\ ft_result' = fold_title(ft_title)
    /\ ft_called' = TRUE
    /\ UNCHANGED <<ft_title, ft_runs>>
    /\ UNCHANGED clusterVars
    /\ UNCHANGED pipeVars

NextFold == ExtendTitle \/ CallFoldTitle

SpecFold == InitFold /\ [][NextFold]_vars

(***************************************************************************)
(* Specification of cluster_center_idxs on bounded matrices and labels.    *)
(***************************************************************************)
InitCluster ==
    /\ FoldIdle
    /\ PipeIdle
    /\ \E n \in 0..MaxN :
          /\ cc_embeddings \in [0..(n - 1) -> Vectors]
          /\ cc_labels \in [0..(n - 1) -> 0..(MaxK - 1)]
    /\ cc_result = <<>>
    /\ cc_called = FALSE

CallClusterCenterIdxs ==
    /\ ~cc_called
    /\ cc_result' = cluster_center_idxs(cc_embeddings, cc_labels)
    /\ cc_called' = TRUE
    /\ UNCHANGED <<cc_embeddings, cc_labels>>
    /\ UNCHANGED foldVars
    /\ UNCHANGED pipeVars

NextCluster == CallClusterCenterIdxs

SpecCluster == InitCluster /\ [][NextCluster]_vars

(***************************************************************************)
(* fold_title: what the ret is compared with.                           *)
(***************************************************************************)
\* ceil(L / width)
NumChunks(title) == (Len(title) + width - 1) \div width

\* the i-th chunk of width characters (the last one may be shorter)
Chunk(title, i) == SubSeq(title, width * (i - 1) + 1, Min(width * i, Len(title)))

\* chunks i..NumChunks joined by newlines
RECURSIVE JoinChunks(_, _)
JoinChunks(title, i) ==
    IF i > NumChunks(title) THEN <<>>
    ELSE IF i = NumChunks(title) THEN Chunk(title, i)
    ELSE Chunk(title, i) \o <<"\n">> \o JoinChunks(title, i + 1)

AllWhitespace(s) == \A i \in 1..Len(s) : s[i] \in Whitespace

\* C6 (as claimed): fold_title returns the ceil(L/30) chunks of the title, in
\* order, joined by newlines, each of at most 30 characters, except that
\* whitespace at the very END of the ret may have been trimmed.
C6_ChunksTrimmedAtEndOnly ==
    ft_called =>
        LET J == JoinChunks(ft_title, 1)
        IN  \E k \in 0..Len(J) :
               /\ ft_result = SubSeq(J, 1, k)
               /\ AllWhitespace(SubSeq(J, k + 1, Len(J)))

\* C6 (amended): fold_title returns the ceil(L/30) chunks of the title, in
\* order, joined by newlines, each of at most 30 characters, with the
\* whitespace at the very beginning AND at the very end of that text removed:
\* the ret starts and ends with a non-whitespace character (or is empty).
C6_ChunksStrippedAtBothEnds ==
    ft_called =>
        LET J == JoinChunks(ft_title, 1)
        IN  /\ \A i \in 1..NumChunks(ft_title) :
                  /\ Len(Chunk(ft_title, i)) <= width
                  /\ Len(Chunk(ft_title, i)) >= 1
            /\ \E a \in 0..Len(J) : \E b \in a..Len(J) :
                  /\ AllWhitespace(SubSeq(J, 1, a))
                  /\ ft_result = SubSeq(J, a + 1, b)
                  /\ AllWhitespace(SubSeq(J, b + 1, Len(J)))
            /\ \/ ft_result = <<>>
               \/ /\ ft_result[1] \notin Whitespace
                  /\ ft_result[Len(ft_result)] \notin Whitespace

\* C6 witness: a title longer than one line that starts with whitespace was
\* folded into several lines, its leading whitespace gone.
C6_Witness ==
    /\ ft_called
    /\ Len(ft_title) > width
    /\ ft_title[1] \in Whitespace
    /\ Len(ft_result) > width
    /\ Len(ft_result) < Len(JoinChunks(ft_title, 1))

(***************************************************************************)
(* cluster_center_idxs: what the ret is compared with.                  *)
(***************************************************************************)
RECURSIVE SetSum(_, _, _)
SetSum(embeddings, S, d) ==
    IF S = {} THEN 0
    ELSE LET j == CHOOSE x \in S : TRUE
         IN  embeddings[j][d] + SetSum(embeddings, S \ {j}, d)

Members(labels, v) == {j \in DOMAIN labels : labels[j] = v}

\* |S|^2 times the squared Euclidean distance of row j to the centroid of S
DistToCentroid(embeddings, S, j) ==
    LET m == Cardinality(S)
        dx == m * embeddings[j][1] - SetSum(embeddings, S, 1)
        dy == m * embeddings[j][2] - SetSum(embeddings, S, 2)
    IN  dx * dx + dy * dy

\* C2 (as claimed): the ret holds exactly one index per label value that
\* has a member and none for a value without members; every index is in
\* [0, N) and carries the label of the cluster it stands for.
C2_OneRepresentativePerNonEmptyCluster ==
    cc_called =>
        LET present == {cc_labels[j] : j \in DOMAIN cc_labels}
        IN  /\ \A p \in 1..Len(cc_result) : cc_result[p] \in DOMAIN cc_labels
            /\ \A v \in present :
                  Cardinality({p \in 1..Len(cc_result) :
                                  cc_labels[cc_result[p]] = v}) = 1
            /\ Len(cc_result) = Cardinality(present)

\* C7: every representative returned is, among the members of its cluster at
\* the minimal squared distance from the cluster's centroid, the one with the
\* lowest index; no cluster has two representatives.
C7_TieGoesToLowestIndex ==
    cc_called =>
        /\ \A p \in 1..Len(cc_result) :
              LET r == cc_result[p]
                  S == Members(cc_labels, cc_labels[r])
                  dist(j) == DistToCentroid(cc_embeddings, S, j)
              IN  /\ r \in S
                  /\ \A q \in S : \/ dist(q) > dist(r)
                                  \/ dist(q) = dist(r) /\ q >= r
        /\ \A p, q \in 1..Len(cc_result) :
              cc_labels[cc_result[p]] = cc_labels[cc_result[q]] => p = q

\* C7 witness: a cluster has two members at the same minimal distance and the
\* lower of the two is the representative returned.
C7_Witness ==
    /\ cc_called
    /\ \E p \in 1..Len(cc_result) :
          LET r == cc_result[p]
              S == Members(cc_labels, cc_labels[r])
              dist(j) == DistToCentroid(cc_embeddings, S, j)
          IN  /\ \E q \in S : q > r /\ dist(q) = dist(r)
              /\ \E q \in S : dist(q) > dist(r)

(***************************************************************************)
(* The visualize operation: what its runs are compared with.               *)
(***************************************************************************)
Ops(t) == [i \in 1..Len(log[t]) |-> log[t][i].op]

\* worker t was given a request the entry code reads in full
WellFormed(t) ==
    /\ pc[t] # "idle"
    /\ method[t] = "POST"
    /\ ~malformed[t]
    /\ route[t] = "vercel" => DEPENDENCIES_AVAILABLE

OpenFiguresOf(t) == {i \in 1..Len(figs) : figs[i][1] = t}

\* C1: a call of generate_visualization_plot with 1, 2 or 3 snippets never
\* invokes KMeans, cluster_center_idxs or t-SNE; when it returns, it returns
\* the non-empty encoded image of its two placeholder panels, which an HTTP
\* caller receives as a success; it can end otherwise only through an
\* exception of the embedder or of the plotting library.
C1_FewPointsGivePlaceholderSuccess ==
    \A t \in Calls :
        Len(lean_codes[t]) \in 1..3 =>
            /\ \A i \in 1..Len(log[t]) :
                  log[t][i].op \notin {"KMeans", "TSNE", "adjust_text"}
            /\ cluster2_center_idxs[t] = <<>>
            /\ cluster4_center_idxs[t] = <<>>
            /\ ret[t].kind = "returned" =>
                  /\ ret[t].plot # <<>>
                  /\ ret[t].plot = Png(SubplotsFig(t), "placeholder")
            /\ ret[t].kind = "raised" =>
                  ret[t].err \in {"generate_embeddings", "subplots",
                                  "tight_layout", "savefig"}
            /\ (pc[t] = "done" /\ route[t] # "direct"
                               /\ ret[t].kind = "returned") =>
                  resp[t] = SuccessBody(Png(SubplotsFig(t), "placeholder"))

\* C1 witness: a call with three snippets has been answered with the image of
\* the placeholder panels.
C1_Witness ==
    \E t \in Calls :
        /\ Len(lean_codes[t]) = 3
        /\ pc[t] = "done"
        /\ resp[t].success
        /\ resp[t].plot_image = Png(SubplotsFig(t), "placeholder")
        /\ Ops(t) = <<"generate_embeddings", "savefig", "b64encode">>

\* C3 (as claimed): every answer to a visualize request is either
\* {plot_image, success: true} with a rendered image, or {error, success:
\* false} without an image.
C3_SuccessWithImageOrExplicitError ==
    \A t \in Calls :
        (pc[t] = "done" /\ route[t] # "direct" /\ method[t] = "POST") =>
            \/ /\ resp[t].keys = {"plot_image", "success"}
               /\ resp[t].success
               /\ resp[t].plot_image # <<>>
               /\ ret[t].kind = "returned"
            \/ /\ "error" \in resp[t].keys
               /\ "success" \in resp[t].keys
               /\ ~resp[t].success
               /\ "plot_image" \notin resp[t].keys

\* C4 (as claimed): a call with an empty lean_codes ends as a success with an
\* empty result, the embedder and every later stage not invoked.
C4_EmptyCodesEndInSuccess ==
    \A t \in Calls :
        (pc[t] = "done" /\ WellFormed(t) /\ lean_codes[t] = <<>>) =>
            /\ log[t] = <<>>
            /\ IF route[t] = "direct"
               THEN ret[t] = Returned(<<>>)
               ELSE resp[t].success /\ resp[t].status = 200

\* C4 (amended): with an empty lean_codes no stage is invoked and no figure is
\* made; a direct call of generate_visualization_plot returns the empty
\* string without raising, while the serverless handler and the Flask route
\* reject the request with status 400 and an error message before the
\* pipeline is called.
C4_EmptyCodesShortCircuitOrRejected ==
    \A t \in Calls :
        (WellFormed(t) /\ lean_codes[t] = <<>>) =>
            /\ log[t] = <<>>
            /\ content[SubplotsFig(t)] = "none"
            /\ ret[t].kind # "raised"
            /\ pc[t] \in {"request", "generate", "returned", "done"}
            /\ pc[t] = "done" =>
                  IF route[t] = "direct"
                  THEN ret[t] = Returned(<<>>) /\ resp[t] = NoResp
                  ELSE /\ ret[t].kind = "none"
                       /\ resp[t].status = 400
                       /\ "error" \in resp[t].keys
                       /\ "plot_image" \notin resp[t].keys
                       /\ ~resp[t].success

\* C4 witness: a direct call with an empty lean_codes has returned the empty
\* string.
C4_Witness ==
    \E t \in Calls :
        /\ route[t] = "direct"
        /\ lean_codes[t] = <<>>
        /\ pc[t] = "done"
        /\ ret[t] = Returned(<<>>)
        /\ log[t] = <<>>

\* C5 (as claimed): an HTTP call with an empty informal_statement and a
\* non-empty lean_codes is answered with status 400, an error message and
\* success: false, and nothing of the pipeline has run.
C5_EmptyStatementIsValidationFailure ==
    \A t \in Calls :
        (pc[t] = "done" /\ WellFormed(t) /\ route[t] # "direct"
            /\ informal_statement[t] = "" /\ lean_codes[t] # <<>>) =>
            /\ resp[t].status = 400
            /\ "error" \in resp[t].keys
            /\ "success" \in resp[t].keys
            /\ ~resp[t].success
            /\ log[t] = <<>>
            /\ ret[t].kind = "none"
            /\ content[SubplotsFig(t)] = "none"

\* C8 (as claimed): once a call of generate_visualization_plot has returned
\* or raised, no figure it created is open.
C8_FigureReleasedOnEveryExit ==
    \A t \in Calls :
        pc[t] \in {"returned", "raised", "done"} => OpenFiguresOf(t) = {}

\* C9 (as claimed): whatever the interleaving of two calls, each one
\* tightens, saves and closes the figure it created itself.
C9_EachCallUsesItsOwnFigure ==
    \A t \in Calls :
        /\ used[t].tight \in {NoFig, SubplotsFig(t)}
        /\ used[t].save \in {NoFig, SubplotsFig(t)}
        /\ used[t].close \in {NoFig, SubplotsFig(t)}

====
